---- MODULE Spec2Model ----
(***************************************************************************)
(* A model of py_docs_bot.py: the reddit listener that answers "!docs"     *)
(* commands with links to the Python documentation.                        *)
(*                                                                         *)
(* Strings are sequences of atoms.  User text (comment bodies, reference   *)
(* tokens, datastore titles) is a sequence of one-character strings; the   *)
(* literal text of the program's f-strings is kept as one atom per        *)
(* literal, so that a formatted string is the concatenation (\o) of its    *)
(* literals and its interpolated values, in the order the f-string gives.  *)
(* The empty Python string is <<>>, and "if link" is link # <<>>.          *)
(***************************************************************************)
EXTENDS Integers, Sequences, FiniteSets, TLC

VARIABLES
    pc,                 \* position of the process (see Init)
    DATASTORE,          \* the global of lines 34-41
    loads,              \* how many times datastore.json was read
    creds,              \* the four values main() hands to praw.Reddit
    exc,                \* the exception main() raised into the restart loop
    logged,             \* what the restart loop / listener logged last
    mainStarts,         \* calls of main() made by the restart loop
    commentId,          \* comments delivered by the stream in this process
    body,               \* comment.body of the comment being handled
    needed_references,  \* line 69
    links,              \* per-reference results of the comprehension, 79-84
    calls,              \* resolver invocations / reply for the current comment
    replyCount,         \* replies posted per comment id
    reply,              \* comment_markdown of the last reply posted
    arg,                \* input of a single function call (unit specifications)
    ret                 \* its result

vars == <<pc, DATASTORE, loads, creds, exc, logged, mainStarts, commentId, body,
          needed_references, links, calls, replyCount, reply, arg, ret>>

procVars == <<pc, DATASTORE, loads, creds, exc, logged, mainStarts, commentId, body,
              needed_references, links, calls, replyCount, reply>>

----------------------------------------------------------------------------
(* Bounds of the model *)

\* longest free text after (or instead of) the trigger in an enumerated body
MaxRest == 3
\* longest exhaustively enumerated reference token
MaxTokLen == 3
\* comments the stream delivers in one process
MaxComments == 2
\* calls of main() by the restart loop
MaxMainStarts == 3

----------------------------------------------------------------------------
(* str helpers *)

RECURSIVE SeqsUpTo(_, _)
SeqsUpTo(S, n) ==
    IF n = 0 THEN {<<>>}
    ELSE LET shorter == SeqsUpTo(S, n - 1)
         IN  shorter \cup {Append(s, c) : s \in {t \in shorter : Len(t) = n - 1}, c \in S}

LowerLetters == <<"a","b","c","d","e","f","g","h","i","j","k","l","m",
                  "n","o","p","q","r","s","t","u","v","w","x","y","z">>
UpperLetters == <<"A","B","C","D","E","F","G","H","I","J","K","L","M",
                  "N","O","P","Q","R","S","T","U","V","W","X","Y","Z">>

IsLower(c) == \E i \in 1..26 : LowerLetters[i] = c
IsUpper(c) == \E i \in 1..26 : UpperLetters[i] = c
IsAlpha(c) == IsLower(c) \/ IsUpper(c)

LowerChar(c) ==
    IF IsUpper(c) THEN LowerLetters[CHOOSE i \in 1..26 : UpperLetters[i] = c] ELSE c
UpperChar(c) ==
    IF IsLower(c) THEN UpperLetters[CHOOSE i \in 1..26 : LowerLetters[i] = c] ELSE c

\* str.lower() and str.upper()
Lower(s) == [i \in 1..Len(s) |-> LowerChar(s[i])]
Upper(s) == [i \in 1..Len(s) |-> UpperChar(s[i])]

\* str.title(): the first cased character after an uncased one is uppercased,
\* every other cased character is lowercased
Title(s) ==
    [i \in 1..Len(s) |->
        IF i = 1 \/ ~IsAlpha(s[i - 1]) THEN UpperChar(s[i]) ELSE LowerChar(s[i])]

\* characters \s of the re module matches (the vertical tab and the Unicode
\* spaces, which no enumerated input contains, are left out)
Whitespace == {" ", "\t", "\n", "\r", "\f"}

\* str.replace(" ", ""): removes the space character U+0020 and nothing else
RemoveSpaces(s) == SelectSeq(s, LAMBDA c : c # " ")

\* str.split(sep) for a one-character separator: always at least one piece
RECURSIVE Split(_, _)
Split(s, sep) ==
    IF \A i \in 1..Len(s) : s[i] # sep THEN <<s>>
    ELSE LET k == CHOOSE i \in 1..Len(s) :
                      s[i] = sep /\ \A j \in 1..(i - 1) : s[j] # sep
         IN  <<SubSeq(s, 1, k - 1)>> \o Split(SubSeq(s, k + 1, Len(s)), sep)

\* "".join(list of strings)
RECURSIVE Join(_)
Join(ss) == IF ss = <<>> THEN <<>> ELSE Head(ss) \o Join(Tail(ss))

----------------------------------------------------------------------------
(* The two regular expressions of the listener, lines 67 and 70 *)

Trigger == <<"!", "d", "o", "c", "s">>

\* ^ under MULTILINE: the start of the string or just after a newline
LineStart(b, i) == i = 1 \/ b[i - 1] = "\n"

TriggerAt(b, i) ==
    /\ LineStart(b, i)
    /\ i + Len(Trigger) - 1 <= Len(b)
    /\ SubSeq(b, i, i + Len(Trigger) - 1) = Trigger

\* .+$ at position j: at least one character that is not a newline (the greedy
\* .+ then runs to the end of the line, where $ matches)
DotPlusAt(b, j) == j <= Len(b) /\ b[j] # "\n"

\* index of the last character of the line that position j is in
LineEnd(b, j) ==
    CHOOSE e \in j..Len(b) :
        /\ \A k \in j..e : b[k] # "\n"
        /\ (e = Len(b) \/ b[e + 1] = "\n")

\* line 67: bool(search(r"^\!docs.+$", comment.body, flags=MULTILINE))
TriggerCheck(b) ==
    \E i \in 1..Len(b) : TriggerAt(b, i) /\ DotPlusAt(b, i + Len(Trigger))

\* where r"^\!docs\s(.+)$" matches: trigger, one whitespace character, .+
CommandAt(b, i) ==
    /\ TriggerAt(b, i)
    /\ i + Len(Trigger) <= Len(b)
    /\ b[i + Len(Trigger)] \in Whitespace
    /\ DotPlusAt(b, i + Len(Trigger) + 1)

NoMatch == [matched |-> FALSE, group1 |-> <<>>]

\* line 70: search(r"^\!docs\s(.+)$", comment.body, flags=MULTILINE); search
\* returns the leftmost match, or None
CommandSearch(b) ==
    IF \E i \in 1..Len(b) : CommandAt(b, i)
    THEN LET i == CHOOSE k \in 1..Len(b) :
                      CommandAt(b, k) /\ \A j \in 1..(k - 1) : ~CommandAt(b, j)
             s == i + Len(Trigger) + 1
         IN  [matched |-> TRUE, group1 |-> SubSeq(b, s, LineEnd(b, s))]
    ELSE NoMatch

\* lines 67-74: the trigger check and the extraction of needed_references;
\* .group(1) on None raises AttributeError
ParseCommand(b) ==
    IF ~TriggerCheck(b)
    THEN [triggered |-> FALSE, raised |-> FALSE, refs |-> <<>>]
    ELSE LET m == CommandSearch(b)
         IN  IF ~m.matched
             THEN [triggered |-> TRUE, raised |-> TRUE, refs |-> <<>>]
             ELSE [triggered |-> TRUE, raised |-> FALSE,
                   refs |-> Split(RemoveSpaces(m.group1), ",")]

----------------------------------------------------------------------------
(* Network and library oracles *)

\* bool(get(link)): requests.get returns a response that is truthy below
\* status 400 ("ok") and falsy from 400 on ("error"), or raises ("raise")
ProbeOutcomes == {"ok", "error", "raise"}

\* line 147: the score a match has to exceed
MatchThreshold == 85

\* fuzz.token_set_ratio is library code; a call's score is an input, taken
\* on both sides of the threshold
Scores == {MatchThreshold, MatchThreshold + 1}

\* the result of a resolver call: the string returned (when it returns), the
\* URLs handed to get() in order, and whether an exception left the call
Returned(out, probes) == [out |-> out, probes |-> probes, raised |-> FALSE]
Raised(probes) == [out |-> <<>>, probes |-> probes, raised |-> TRUE]

\* f"[{text}]({link})  \n  \n", lines 130, 149, 175, 185
LinkLine(text, link) == <<"[">> \o text \o <<"](">> \o link \o <<")  \n  \n">>

----------------------------------------------------------------------------
(* _python_enhancement_proposals, lines 98-130 *)

ZenAliases == {<<"z","e","n">>,
               <<"z","e","n","o","f","p","y","t","h","o","n">>,
               <<"p","e","p","-","2","0">>}

ZenText ==
    <<"[The Zen of Python](https://www.python.org/dev/peps/pep-0020)  \n\n    >>> import this  \n  \n">>

PepBase == <<"https://www.python.org/dev/peps/pep-">>

DigitChars == <<"0","1","2","3","4","5","6","7","8","9">>
IsDigit(c) == \E i \in 1..10 : DigitChars[i] = c
DigitVal(c) == (CHOOSE i \in 1..10 : DigitChars[i] = c) - 1

\* str.strip() as int() applies it: leading and trailing whitespace removed
RECURSIVE Strip(_)
Strip(s) ==
    IF s = <<>> THEN s
    ELSE IF Head(s) \in Whitespace THEN Strip(Tail(s))
    ELSE IF s[Len(s)] \in Whitespace THEN Strip(SubSeq(s, 1, Len(s) - 1))
    ELSE s

RECURSIVE DecimalValue(_)
DecimalValue(ds) ==
    IF ds = <<>> THEN 0
    ELSE 10 * DecimalValue(SubSeq(ds, 1, Len(ds) - 1)) + DigitVal(ds[Len(ds)])

\* int(s) of line 120: optional surrounding whitespace, an optional sign, then
\* decimal digits that single underscores may separate; anything else is a
\* ValueError (ok = FALSE)
ParseInt(s) ==
    LET t == Strip(s)
        signed == t # <<>> /\ Head(t) \in {"+", "-"}
        d == IF signed THEN Tail(t) ELSE t
        wellFormed ==
            /\ d # <<>>
            /\ IsDigit(d[1]) /\ IsDigit(d[Len(d)])
            /\ \A i \in 1..Len(d) : IsDigit(d[i]) \/ d[i] = "_"
            /\ \A i \in 1..(Len(d) - 1) : ~(d[i] = "_" /\ d[i + 1] = "_")
        magnitude == DecimalValue(SelectSeq(d, IsDigit))
    IN  IF wellFormed
        THEN [ok |-> TRUE,
              value |-> IF signed /\ Head(t) = "-" THEN 0 - magnitude ELSE magnitude]
        ELSE [ok |-> FALSE, value |-> 0]

RECURSIVE Decimal(_)
Decimal(n) ==
    IF n < 10 THEN <<DigitChars[n + 1]>>
    ELSE Decimal(n \div 10) \o <<DigitChars[(n % 10) + 1]>>

RECURSIVE ZeroFill(_, _)
ZeroFill(s, width) == IF Len(s) >= width THEN s ELSE ZeroFill(<<"0">> \o s, width)

\* f"{pep_number:04d}", line 126: a minimum width of 4, the sign counted in it
Format04d(n) ==
    IF n < 0 THEN <<"-">> \o ZeroFill(Decimal(0 - n), 3) ELSE ZeroFill(Decimal(n), 4)

\* the resolver without the lower() of line 103
PythonEnhancementProposals_CaseSensitive(reference, probe) ==
    LET ref == reference
        parts == Split(ref, "-")
    IN  IF ref \in ZenAliases THEN Returned(ZenText, <<>>)
        ELSE IF Len(parts) # 2 THEN Returned(<<>>, <<>>)
        ELSE LET pep_number == ParseInt(parts[2])
             IN  IF ~pep_number.ok THEN Returned(<<>>, <<>>)
                 ELSE LET link == PepBase \o Format04d(pep_number.value)
                      IN  CASE probe = "raise" -> Raised(<<link>>)
                            [] probe = "ok" -> Returned(LinkLine(Upper(ref), link), <<link>>)
                            [] OTHER -> Returned(<<>>, <<link>>)

PythonEnhancementProposals(reference, probe) ==
    LET ref == Lower(reference)
        parts == Split(ref, "-")
    IN  IF ref \in ZenAliases THEN Returned(ZenText, <<>>)
        ELSE IF Len(parts) # 2 THEN Returned(<<>>, <<>>)
        ELSE LET pep_number == ParseInt(parts[2])
             IN  IF ~pep_number.ok THEN Returned(<<>>, <<>>)
                 ELSE LET link == PepBase \o Format04d(pep_number.value)
                      IN  CASE probe = "raise" -> Raised(<<link>>)
                            [] probe = "ok" -> Returned(LinkLine(Upper(ref), link), <<link>>)
                            [] OTHER -> Returned(<<>>, <<link>>)

----------------------------------------------------------------------------
(* _language_reference_docs, lines 132-152 *)

\* the list comprehension over DATASTORE["docs_sections"]: scores[i] is the
\* token_set_ratio of entry i's title and reference.lower()
RECURSIVE MatchedReferences(_, _, _)
MatchedReferences(sections, scores, i) ==
    IF i > Len(sections) THEN <<>>
    ELSE (IF scores[i] > MatchThreshold
          THEN <<LinkLine(Title(sections[i].title), sections[i].link)>>
          ELSE <<>>)
         \o MatchedReferences(sections, scores, i + 1)

LanguageReferenceDocs(reference, scores) ==
    LET matched_references == MatchedReferences(DATASTORE.docs_sections, scores, 1)
    IN  Returned(IF matched_references # <<>> THEN Join(matched_references) ELSE <<>>,
                 <<>>)

----------------------------------------------------------------------------
(* _library_reference_docs, lines 154-185 *)

LibraryBase == <<"https://docs.python.org/3/library/">>

\* line 165
FunctionsLink(reference) == LibraryBase \o <<"functions.html#">> \o reference
\* line 171
ModuleLink(reference) == LibraryBase \o reference \o <<".html#">> \o reference
\* line 183
FallbackLink(reference) ==
    LibraryBase \o Split(reference, ".")[1] \o <<".html#">> \o reference

\* the resolver returning the fallback link of line 183 without probing it
LibraryReferenceDocs_FallbackUnprobed(reference, probe1, probe2) ==
    LET link == IF reference \in DATASTORE.builtin_functions
                THEN FunctionsLink(reference)
                ELSE ModuleLink(reference)
        link2 == FallbackLink(reference)
    IN  CASE probe1 = "raise" -> Raised(<<link>>)
          [] probe1 = "ok" -> Returned(LinkLine(reference, link), <<link>>)
          [] OTHER -> Returned(LinkLine(reference, link2), <<link>>)

LibraryReferenceDocs(reference, probe1, probe2) ==
    LET link == IF reference \in DATASTORE.builtin_functions
                THEN FunctionsLink(reference)
                ELSE ModuleLink(reference)
        link2 == FallbackLink(reference)
    IN  CASE probe1 = "raise" -> Raised(<<link>>)
          [] probe1 = "ok" -> Returned(LinkLine(reference, link), <<link>>)
          [] OTHER ->
               CASE probe2 = "raise" -> Raised(<<link, link2>>)
                 [] probe2 = "ok" -> Returned(LinkLine(reference, link2), <<link, link2>>)
                 [] OTHER -> Returned(<<>>, <<link, link2>>)

----------------------------------------------------------------------------
(* Credential loading of main(), lines 197-219 *)

CredKeys == <<"client_id", "client_secret", "username", "password">>
EnvNames == <<"REDDIT_DOC_BOT_ID", "REDDIT_DOC_BOT_SECRET",
              "REDDIT_DOC_BOT_USER", "REDDIT_DOC_BOT_PASSWORD">>
CredIndex == 1..4

Unbound == <<"unbound", "">>
FileValue(i) == <<"credentials.ini", CredKeys[i]>>
EnvValue(i) == <<"environ", EnvNames[i]>>

\* lines 201-204: the four locals are assigned in order from config["reddit"]
\* until a key is missing (file: the keys the section holds; a missing or
\* unparsable file holds none)
FileVars(file) ==
    [i \in CredIndex |->
        IF \A j \in 1..i : CredKeys[j] \in file THEN FileValue(i) ELSE Unbound]

\* lines 210-213: the same four locals assigned in order from os.environ
\* until a name is missing
EnvVars(before, env) ==
    [i \in CredIndex |->
        IF \A j \in 1..i : EnvNames[j] \in env THEN EnvValue(i) ELSE before[i]]

\* the environment branch filling in only what the file left unbound
LoadCredentials_KeepsFileValues(file, env) ==
    IF \A i \in CredIndex : CredKeys[i] \in file
    THEN [exit |-> FALSE, values |-> FileVars(file)]
    ELSE [exit |-> ~(\A i \in CredIndex : EnvNames[i] \in env),
          values |-> [i \in CredIndex |->
                         IF FileVars(file)[i] # Unbound THEN FileVars(file)[i]
                         ELSE IF EnvNames[i] \in env THEN EnvValue(i) ELSE Unbound]]

\* lines 197-219: exit is the SystemExit of line 219
LoadCredentials(file, env) ==
    IF \A i \in CredIndex : CredKeys[i] \in file
    THEN [exit |-> FALSE, values |-> FileVars(file)]
    ELSE IF \A i \in CredIndex : EnvNames[i] \in env
         THEN [exit |-> FALSE, values |-> EnvVars(FileVars(file), env)]
         ELSE [exit |-> TRUE, values |-> EnvVars(FileVars(file), env)]

----------------------------------------------------------------------------
(* Inputs *)

BuiltinFunctions == {<<"i","d">>, <<"z","i","p">>}

DocsSections ==
    << [title |-> <<"t","h","e"," ","w","h","i","l","e"," ",
                    "s","t","a","t","e","m","e","n","t">>,
        link |-> <<"https://docs.python.org/3/reference/compound_stmts.html#the-while-statement">>],
       [title |-> <<"i","d","e","n","t","i","f","i","e","r","s">>,
        link |-> <<"https://docs.python.org/3/reference/lexical_analysis.html#identifiers">>] >>

\* contents datastore.json may have: the built-in names and a list of sections
DatastoreOf(sections) ==
    [defined |-> TRUE, builtin_functions |-> BuiltinFunctions, docs_sections |-> sections]

\* the contents the process is run with, and those single calls are run with
Datastores == {DatastoreOf(<<>>), DatastoreOf(<<DocsSections[1]>>)}
UnitDatastores == {DatastoreOf(SubSeq(DocsSections, 1, n)) : n \in 0..Len(DocsSections)}

\* the module global before line 37 has run
Undefined == [defined |-> FALSE]

\* comment bodies the stream delivers
Bodies ==
    { <<"h","i">>,
      <<"!","d","o","c","s","i","d">>,
      <<"!","d","o","c","s"," ","i","d">>,
      <<"!","d","o","c","s"," ","x">>,
      <<"!","d","o","c","s"," ","i","d",","," ","p","e","p","-","8">>,
      <<"!","d","o","c","s"," ","x",",","Z","e","n">>,
      <<"o","k","\n","!","d","o","c","s","\t","o","s",".","p","a","t","h">> }

----------------------------------------------------------------------------
(* The process: import, the restart loop, main() and the listener *)

NoException == [type |-> "none", at |-> "none"]
Exception(type, at) == [type |-> type, at |-> at]

\* creds before main() has run: nothing read, nothing bound
NoCredentials == [called |-> FALSE, exit |-> FALSE,
                  values |-> [i \in CredIndex |-> Unbound],
                  fileAll |-> FALSE, envAll |-> FALSE]

NoCall == [fn |-> "none"]

\* line 89: the literal text after the joined links
Footer ==
    <<"  \nPython Documentation Bot - *[How To Use](https://github.com/trevormiller6/Py-Docs-Bot)*">>

Init ==
    /\ pc = "import"
    /\ DATASTORE = Undefined
    /\ loads = 0
    /\ creds = NoCredentials
    /\ exc = NoException
    /\ logged = "none"
    /\ mainStarts = 0
    /\ commentId = 0
    /\ body = <<>>
    /\ needed_references = <<>>
    /\ links = <<>>
    /\ calls = <<>>
    /\ replyCount = <<>>
    /\ reply = <<>>
    /\ arg = <<>>
    /\ ret = NoCall

\* lines 34-41: datastore.json is read when the module is imported; any
\* failure is logged and ends the process
LoadDatastore ==
    /\ pc = "import"
    /\ \/ \E d \in Datastores :
            /\ DATASTORE' = d
            /\ loads' = loads + 1
            /\ pc' = "loop"
            /\ UNCHANGED <<exc, logged>>
       \/ /\ logged' = "datastore-error"
          /\ exc' = Exception("SystemExit", "import")
          /\ pc' = "exited"
          /\ UNCHANGED <<DATASTORE, loads>>
    /\ UNCHANGED <<creds, mainStarts, commentId, body, needed_references, links,
                   calls, replyCount, reply, arg, ret>>

\* lines 244 and 197-237: the restart loop calls main(), which loads the
\* credentials, builds the client and enters the listener's for loop
Main ==
    /\ pc = "loop"
    /\ mainStarts < MaxMainStarts
    /\ mainStarts' = mainStarts + 1
    /\ \E file \in SUBSET {CredKeys[i] : i \in CredIndex},
          env \in SUBSET {EnvNames[i] : i \in CredIndex},
          client \in {"ok", "Exception", "KeyboardInterrupt"} :
          LET c == LoadCredentials(file, env)
          IN  /\ creds' = [called |-> TRUE, exit |-> c.exit, values |-> c.values,
                           fileAll |-> \A i \in CredIndex : CredKeys[i] \in file,
                           envAll |-> \A i \in CredIndex : EnvNames[i] \in env]
              /\ IF c.exit
                 THEN /\ exc' = Exception("SystemExit", "credentials")
                      /\ logged' = "no-credentials"
                      /\ pc' = "except"
                 ELSE IF client # "ok"
                 THEN /\ exc' = Exception(client, "client")
                      /\ pc' = "except"
                      /\ UNCHANGED logged
                 ELSE /\ exc' = NoException
                      /\ logged' = "monitoring"
                      /\ pc' = "stream"
    /\ UNCHANGED <<DATASTORE, loads, commentId, body, needed_references, links,
                   calls, replyCount, reply, arg, ret>>

\* line 62: waiting for the stream, which may fail instead of yielding
StreamError ==
    /\ pc = "stream"
    /\ exc' = Exception("Exception", "stream")
    /\ pc' = "except"
    /\ UNCHANGED <<DATASTORE, loads, creds, logged, mainStarts, commentId, body,
                   needed_references, links, calls, replyCount, reply, arg, ret>>

\* Ctrl-C while main() runs
Interrupt ==
    /\ pc \in {"stream", "resolve", "reply"}
    /\ exc' = Exception("KeyboardInterrupt", "signal")
    /\ pc' = "except"
    /\ UNCHANGED <<DATASTORE, loads, creds, logged, mainStarts, commentId, body,
                   needed_references, links, calls, replyCount, reply, arg, ret>>

\* lines 62-74: the stream yields a new comment; trigger check and extraction
NextComment ==
    /\ pc = "stream"
    /\ commentId < MaxComments
    /\ \E b \in Bodies :
          LET cmd == ParseCommand(b)
          IN  /\ body' = b
              /\ needed_references' = cmd.refs
              /\ IF ~cmd.triggered
                 THEN /\ pc' = "stream"
                      /\ UNCHANGED <<exc, logged>>
                 ELSE IF cmd.raised
                 THEN /\ pc' = "except"
                      /\ exc' = Exception("Exception", "extract")
                      /\ logged' = "command"
                 ELSE /\ pc' = "resolve"
                      /\ logged' = "command"
                      /\ UNCHANGED exc
    /\ commentId' = commentId + 1
    /\ replyCount' = Append(replyCount, 0)
    /\ links' = <<>>
    /\ calls' = <<>>
    /\ reply' = <<>>
    /\ UNCHANGED <<DATASTORE, loads, creds, mainStarts, arg, ret>>

Invocation(fn, reference, r) == [fn |-> fn, ref |-> reference, out |-> r.out]

\* the three outputs concatenated with the proposal first
ReferenceResult_ProposalFirst(lib, lang, pep) == pep.out \o lib.out \o lang.out

\* lines 80-82: the three resolver outputs of one reference, concatenated
ReferenceResult(lib, lang, pep) == lib.out \o lang.out \o pep.out

\* lines 77-86: the outer comprehension keeps the non-empty results
AllLinks(results) == SelectSeq(results, LAMBDA link : link # <<>>)

\* line 89
CommentMarkdown(all_links) == Join(all_links) \o Footer

\* lines 79-84: one element of the inner comprehension, the three resolvers
\* called left to right on the next reference; an exception of a probe leaves
\* the comprehension
ResolveReference ==
    /\ pc = "resolve"
    /\ LET reference == needed_references[Len(links) + 1]
       IN  \E probe1 \in ProbeOutcomes, probe2 \in ProbeOutcomes, probe3 \in ProbeOutcomes,
              scores \in [1..Len(DATASTORE.docs_sections) -> Scores] :
              LET lib == LibraryReferenceDocs(reference, probe1, probe2)
                  lang == LanguageReferenceDocs(reference, scores)
                  pep == PythonEnhancementProposals(reference, probe3)
              IN  IF lib.raised
                  THEN /\ calls' = calls \o <<Invocation("library", reference, lib)>>
                       /\ exc' = Exception("Exception", "probe")
                       /\ pc' = "except"
                       /\ UNCHANGED links
                  ELSE IF pep.raised
                  THEN /\ calls' = calls \o <<Invocation("library", reference, lib),
                                              Invocation("language", reference, lang),
                                              Invocation("proposal", reference, pep)>>
                       /\ exc' = Exception("Exception", "probe")
                       /\ pc' = "except"
                       /\ UNCHANGED links
                  ELSE /\ calls' = calls \o <<Invocation("library", reference, lib),
                                              Invocation("language", reference, lang),
                                              Invocation("proposal", reference, pep)>>
                       /\ links' = Append(links, ReferenceResult(lib, lang, pep))
                       /\ pc' = IF Len(links) + 1 = Len(needed_references)
                                THEN "reply" ELSE "resolve"
                       /\ UNCHANGED exc
    /\ UNCHANGED <<DATASTORE, loads, creds, logged, mainStarts, commentId, body,
                   needed_references, replyCount, reply, arg, ret>>

\* lines 77-96: the empty results are filtered out; a reply is posted when
\* any is left (comment.reply may fail), an error is logged otherwise
Respond ==
    /\ pc = "reply"
    /\ LET all_links == AllLinks(links)
           comment_markdown == CommentMarkdown(all_links)
       IN  IF all_links # <<>>
           THEN \/ /\ reply' = comment_markdown
                   /\ replyCount' = [replyCount EXCEPT ![commentId] = @ + 1]
                   /\ calls' = Append(calls, [fn |-> "reply", ref |-> <<>>,
                                              out |-> comment_markdown])
                   /\ logged' = "replied"
                   /\ pc' = "stream"
                   /\ UNCHANGED exc
                \/ /\ exc' = Exception("Exception", "reply")
                   /\ pc' = "except"
                   /\ UNCHANGED <<reply, replyCount, calls, logged>>
           ELSE /\ logged' = "invalid-request"
                /\ pc' = "stream"
                /\ UNCHANGED <<reply, replyCount, calls, exc>>
    /\ UNCHANGED <<DATASTORE, loads, creds, mainStarts, commentId, body,
                   needed_references, links, arg, ret>>

\* a restart loop whose first except clause is missing: every exception of
\* main(), KeyboardInterrupt and SystemExit included, restarts it
RestartLoop_RestartsAlways ==
    /\ pc = "except"
    /\ logged' = "restarting"
    /\ pc' = "loop"
    /\ exc' = NoException
    /\ creds' = NoCredentials
    /\ body' = <<>>
    /\ needed_references' = <<>>
    /\ links' = <<>>
    /\ calls' = <<>>
    /\ reply' = <<>>
    /\ UNCHANGED <<DATASTORE, loads, mainStarts, commentId, replyCount, arg, ret>>

\* a restart that runs the module again from its first line
RestartLoop_Reimports ==
    /\ pc = "except"
    /\ IF exc.type \in {"KeyboardInterrupt", "SystemExit"}
       THEN /\ logged' = "good-bye"
            /\ pc' = "exited"
            /\ UNCHANGED <<exc, creds, body, needed_references, links, calls, reply>>
       ELSE /\ logged' = "restarting"
            /\ pc' = "import"
            /\ exc' = NoException
            /\ creds' = NoCredentials
            /\ body' = <<>>
            /\ needed_references' = <<>>
            /\ links' = <<>>
            /\ calls' = <<>>
            /\ reply' = <<>>
    /\ UNCHANGED <<DATASTORE, loads, mainStarts, commentId, replyCount, arg, ret>>

\* lines 242-250: the except clauses of the restart loop; with the frame of
\* main() its locals (the credentials, the comment, the partial results) and
\* the handled exception are gone
RestartLoop ==
    /\ pc = "except"
    /\ IF exc.type \in {"KeyboardInterrupt", "SystemExit"}
       THEN /\ logged' = "good-bye"
            /\ pc' = "exited"
            /\ UNCHANGED <<exc, creds, body, needed_references, links, calls, reply>>
       ELSE /\ logged' = "restarting"
            /\ pc' = "loop"
            /\ exc' = NoException
            /\ creds' = NoCredentials
            /\ body' = <<>>
            /\ needed_references' = <<>>
            /\ links' = <<>>
            /\ calls' = <<>>
            /\ reply' = <<>>
    /\ UNCHANGED <<DATASTORE, loads, mainStarts, commentId, replyCount, arg, ret>>

Next ==
    \/ LoadDatastore
    \/ Main
    \/ StreamError
    \/ Interrupt
    \/ NextComment
    \/ ResolveReference
    \/ Respond
    \/ RestartLoop

Spec == Init /\ [][Next]_vars

----------------------------------------------------------------------------
(* Unit specifications: one call of one function on an enumerated input *)

BodyChars == {" ", "\t", ",", "a", "\n"}

\* what precedes the last trigger of an enumerated body
Preambles ==
    { <<>>, <<"a">>, <<"a", "\n">>, Trigger \o <<"\n">>, Trigger \o <<"a", "\n">> }

ParseBodies ==
    LET rests == SeqsUpTo(BodyChars, MaxRest)
    IN  rests \cup {pre \o Trigger \o r : pre \in Preambles, r \in rests}

TokenChars == {"i", "d", "I", ".", "-", "2", "0"}

NamedTokens ==
    { <<"z","i","p">>,
      <<"z","e","n">>, <<"Z","e","n">>, <<"Z","E","N">>,
      <<"z","e","n","o","f","p","y","t","h","o","n">>,
      <<"Z","e","n","O","f","P","y","t","h","o","n">>,
      <<"p","e","p","-","2","0">>, <<"P","E","P","-","2","0">>,
      <<"p","e","p","-","8">>, <<"P","e","p","-","8">>,
      <<"p","e","p","-","a","b","c">>, <<"p","e","p">>,
      <<"p","e","p","-","+","8">>, <<"p","e","p","-","1","_","0">>,
      <<"p","e","p","-","_","8">>, <<"p","e","p","-","\t","8">>,
      <<"p","e","p","-","3","1","0","7">>,
      <<"p","e","p","-","1","0","0","0","0">>,
      <<"p","e","p","-","0","0","0","0","8">>,
      <<"r","e",".","s","e","a","r","c","h">>,
      <<"o","s",".","p","a","t","h",".","j","o","i","n">> }

Tokens == SeqsUpTo(TokenChars, MaxTokLen) \cup NamedTokens

InitUnit ==
    /\ pc = "unit"
    /\ loads = 1
    /\ creds = NoCredentials
    /\ exc = NoException
    /\ logged = "none"
    /\ mainStarts = 0
    /\ commentId = 0
    /\ body = <<>>
    /\ needed_references = <<>>
    /\ links = <<>>
    /\ calls = <<>>
    /\ replyCount = <<>>
    /\ reply = <<>>
    /\ ret = NoCall

InitParse == InitUnit /\ DATASTORE \in UnitDatastores /\ arg \in ParseBodies

InitResolve == InitUnit /\ DATASTORE \in UnitDatastores /\ arg \in Tokens

CallParseCommand ==
    /\ pc = "unit" /\ ret = NoCall
    /\ LET cmd == ParseCommand(arg)
       IN  ret' = [fn |-> "parse", triggered |-> cmd.triggered,
                   raised |-> cmd.raised, refs |-> cmd.refs]
    /\ UNCHANGED <<procVars, arg>>

CallLibrary ==
    /\ pc = "unit" /\ ret = NoCall
    /\ \E probe1 \in ProbeOutcomes, probe2 \in ProbeOutcomes :
          LET r == LibraryReferenceDocs(arg, probe1, probe2)
          IN  ret' = [fn |-> "library", oracle |-> <<probe1, probe2>>, out |-> r.out,
                      probes |-> r.probes, raised |-> r.raised]
    /\ UNCHANGED <<procVars, arg>>

CallLanguage ==
    /\ pc = "unit" /\ ret = NoCall
    /\ \E scores \in [1..Len(DATASTORE.docs_sections) -> Scores] :
          LET r == LanguageReferenceDocs(arg, scores)
          IN  ret' = [fn |-> "language", oracle |-> scores, out |-> r.out,
                      probes |-> r.probes, raised |-> r.raised]
    /\ UNCHANGED <<procVars, arg>>

CallProposal ==
    /\ pc = "unit" /\ ret = NoCall
    /\ \E probe \in ProbeOutcomes :
          LET r == PythonEnhancementProposals(arg, probe)
          IN  ret' = [fn |-> "proposal", oracle |-> <<probe>>, out |-> r.out,
                      probes |-> r.probes, raised |-> r.raised]
    /\ UNCHANGED <<procVars, arg>>

SpecParse == InitParse /\ [][CallParseCommand]_vars

NextResolve == CallLibrary \/ CallLanguage \/ CallProposal

SpecResolve == InitResolve /\ [][NextResolve]_vars

----------------------------------------------------------------------------
(* Claims about the listener's parsing (SpecParse) *)

ParseReturned == ret.fn = "parse"

\* the rest of the first line that begins with the trigger and goes on after it
TriggerLineRemainder(b) ==
    LET i == CHOOSE k \in 1..Len(b) :
                 /\ TriggerAt(b, k) /\ DotPlusAt(b, k + Len(Trigger))
                 /\ \A j \in 1..(k - 1) :
                        ~(TriggerAt(b, j) /\ DotPlusAt(b, j + Len(Trigger)))
    IN  SubSeq(b, i + Len(Trigger), LineEnd(b, i + Len(Trigger)))

\* C3: every body that passes the trigger check of line 67 is split into a
\* non-empty sequence of reference tokens, and no exception is raised.
C3_TriggeredBodyIsParsed ==
    (ParseReturned /\ ret.triggered) => (~ret.raised /\ Len(ret.refs) >= 1)

\* C8: no reference token of a matched trigger line contains a whitespace
\* character, and the tokens are the comma-separated pieces of the remainder
\* of the trigger line with all whitespace removed.
C8_TokensWhitespaceStripped ==
    (ParseReturned /\ ret.triggered /\ ~ret.raised) =>
        /\ \A i \in 1..Len(ret.refs) :
               \A k \in 1..Len(ret.refs[i]) : ret.refs[i][k] \notin Whitespace
        /\ ret.refs = Split(SelectSeq(TriggerLineRemainder(arg),
                                      LAMBDA c : c \notin Whitespace), ",")

----------------------------------------------------------------------------
(* Claims about the resolvers (SpecResolve) *)

LibraryCalled == ret.fn = "library"
ProposalCalled == ret.fn = "proposal"

\* C4: for a built-in name the library resolver returns the link anchored on
\* the functions page, whatever the probes answer: never another page, never
\* the empty string.
C4_BuiltinAlwaysFunctionsPage ==
    (LibraryCalled /\ arg \in DATASTORE.builtin_functions /\ ~ret.raised) =>
        ret.out = <<"[">> \o arg \o <<"](">>
                  \o <<"https://docs.python.org/3/library/", "functions.html#">> \o arg
                  \o <<")  \n  \n">>

\* the part of a token before its first dot
PageName(t) ==
    IF \E i \in 1..Len(t) : t[i] = "."
    THEN SubSeq(t, 1, (CHOOSE i \in 1..Len(t) :
                           t[i] = "." /\ \A j \in 1..(i - 1) : t[j] # ".") - 1)
    ELSE t

ExpectedLine(text, url) == <<"[">> \o text \o <<"](">> \o url \o <<")  \n  \n">>

\* C10: for a token that is not a built-in name the library resolver probes
\* base + token + ".html#" + token first; on success it returns the link to
\* that URL and probes nothing else; only after a failure it probes the
\* fallback URL (page: the token up to its first dot, anchor: the token) and
\* returns the link to it on success, the empty string otherwise.  Always at
\* most two probes, and the output is empty or exactly one link line.
C10_LibraryProbeOrder ==
    LibraryCalled =>
        LET first == <<"https://docs.python.org/3/library/">> \o arg \o <<".html#">> \o arg
            fallback == <<"https://docs.python.org/3/library/">> \o PageName(arg)
                        \o <<".html#">> \o arg
        IN  /\ Len(ret.probes) <= 2
            /\ ~ret.raised =>
                   \/ ret.out = <<>>
                   \/ /\ ret.out = ExpectedLine(arg, ret.probes[Len(ret.probes)])
                      /\ Cardinality({k \in 1..Len(ret.out) : ret.out[k] = ")  \n  \n"}) = 1
            /\ arg \notin DATASTORE.builtin_functions =>
                   /\ ret.oracle[1] = "ok" =>
                          ~ret.raised /\ ret.probes = <<first>>
                          /\ ret.out = ExpectedLine(arg, first)
                   /\ ret.oracle[1] = "raise" => ret.raised /\ ret.probes = <<first>>
                   /\ ret.oracle[1] = "error" =>
                          /\ ret.probes = <<first, fallback>>
                          /\ ret.oracle[2] = "ok" =>
                                 ~ret.raised /\ ret.out = ExpectedLine(arg, fallback)
                          /\ ret.oracle[2] = "error" => ~ret.raised /\ ret.out = <<>>
                          /\ ret.oracle[2] = "raise" => ret.raised

C10_Witness ==
    /\ LibraryCalled
    /\ arg = <<"i", ".", "d">>
    /\ ret.oracle = <<"error", "ok">>
    /\ ret.out = <<"[", "i", ".", "d", "](", "https://docs.python.org/3/library/",
                   "i", ".html#", "i", ".", "d", ")  \n  \n">>

\* what the proposal resolver is said to do with the lowercased token: the
\* easter egg for the three aliases; nothing, and no probe, unless the token
\* has exactly one "-" followed by an integer; else one probe of the PEP URL
\* whose number is written with the digits "digits", and a link on success
ProposalReference(GoodDigits(_, _)) ==
    LET ref == Lower(arg)
        dashes == {i \in 1..Len(ref) : ref[i] = "-"}
        dash == CHOOSE i \in dashes : TRUE
        number == ParseInt(SubSeq(ref, dash + 1, Len(ref)))
    IN  IF ref \in {<<"z","e","n">>, <<"z","e","n","o","f","p","y","t","h","o","n">>,
                    <<"p","e","p","-","2","0">>}
        THEN ~ret.raised /\ ret.probes = <<>> /\ ret.out = ZenText
        ELSE IF Cardinality(dashes) # 1 \/ ~number.ok
        THEN ~ret.raised /\ ret.probes = <<>> /\ ret.out = <<>>
        ELSE /\ Len(ret.probes) = 1
             /\ \E n \in 1..Len(ret.probes[1]) :
                    /\ SubSeq(ret.probes[1], 1, n) = <<"https://www.python.org/dev/peps/pep-">>
                    /\ GoodDigits(SubSeq(ret.probes[1], n + 1, Len(ret.probes[1])),
                                  number.value)
             /\ ret.oracle[1] = "ok" =>
                    ~ret.raised /\ ret.out = ExpectedLine(Upper(ref), ret.probes[1])
             /\ ret.oracle[1] = "error" => ~ret.raised /\ ret.out = <<>>
             /\ ret.oracle[1] = "raise" => ret.raised

IsNumeral(ds, value) ==
    /\ ds # <<>> /\ \A i \in 1..Len(ds) : IsDigit(ds[i])
    /\ DecimalValue(ds) = value

FourDigits(ds, value) == IsNumeral(ds, value) /\ Len(ds) = 4

AtLeastFourDigits(ds, value) ==
    IsNumeral(ds, value) /\ Len(ds) >= 4 /\ (Len(ds) > 4 => ds[1] # "0")

\* C5 as stated: the proposal resolver agrees with the reference, the number
\* being written with 4 digits in the URL it probes.
C5_FourDigitUrl == ProposalCalled => ProposalReference(FourDigits)

\* C5 as amended: the proposal resolver agrees with the reference, the number
\* being zero-padded to at least 4 digits (a longer number is kept in full).
C5_ZeroPaddedUrl == ProposalCalled => ProposalReference(AtLeastFourDigits)

C5_Witness ==
    /\ ProposalCalled
    /\ arg = <<"P", "e", "p", "-", "8">>
    /\ ret.oracle = <<"ok">>
    /\ ret.out = <<"[", "P", "E", "P", "-", "8", "](",
                   "https://www.python.org/dev/peps/pep-", "0", "0", "0", "8",
                   ")  \n  \n">>

----------------------------------------------------------------------------
(* Claims about the process (Spec) *)

InMain == pc \in {"stream", "resolve", "reply"}

\* the listener is done with the current comment: it is back at the stream,
\* or the extraction of line 70 threw it out of the loop
CommentHandled ==
    /\ commentId > 0
    /\ TriggerCheck(body)
    /\ pc = "stream" \/ (pc = "except" /\ exc.at = "extract")

\* C1: a comment that passes the trigger check gets exactly one reply if some
\* token has a non-empty result; if none has, it gets no reply, the listener
\* logs the error and goes on with the stream (the loop neither stops nor
\* raises).  No comment gets more than one reply.
C1_OneReplyOrLoggedError ==
    /\ \A id \in 1..Len(replyCount) : replyCount[id] <= 1
    /\ CommentHandled =>
           IF \E i \in 1..Len(links) : links[i] # <<>>
           THEN replyCount[commentId] = 1 /\ logged = "replied"
           ELSE replyCount[commentId] = 0 /\ logged = "invalid-request" /\ pc = "stream"

\* C2: an exception of main() other than KeyboardInterrupt and SystemExit is
\* caught and logged and main() is started again, however often that happens;
\* KeyboardInterrupt and SystemExit end the process, and main() is never
\* started again.
C2_Supervision ==
    /\ [](exc.type # "none" => pc \in {"except", "exited"})
    /\ [][(pc = "except" /\ exc.type = "Exception") =>
              (pc' = "loop" /\ logged' = "restarting")]_vars
    /\ [](pc = "loop" /\ mainStarts < MaxMainStarts => ENABLED Main)
    /\ [][(pc = "except" /\ exc.type \in {"KeyboardInterrupt", "SystemExit"}) =>
              (pc' = "exited" /\ mainStarts' = mainStarts)]_vars
    /\ [][pc = "exited" => (pc' = "exited" /\ mainStarts' = mainStarts)]_vars

\* main() runs for the third time, its two earlier runs having failed
C2_Witness == mainStarts = 3 /\ InMain /\ logged = "monitoring"

\* the result of reference i, rebuilt from the recorded resolver calls
InvokedResult(i) == calls[3 * i - 2].out \o calls[3 * i - 1].out \o calls[3 * i].out

RECURSIVE InvokedResults(_)
InvokedResults(n) == IF n = 0 THEN <<>> ELSE InvokedResults(n - 1) \o InvokedResult(n)

ReplyPosted == calls # <<>> /\ calls[Len(calls)].fn = "reply"

\* C6: the reply to a comment with tokens t1..tn is library(t1) + language(t1)
\* + proposal(t1) ... library(tn) + language(tn) + proposal(tn), in request
\* order, followed by the footer exactly once; each resolver has been invoked
\* exactly once per token, for all n tokens, before the reply is posted.
C6_Aggregation ==
    ReplyPosted =>
        LET n == Len(needed_references)
        IN  /\ Len(calls) = 3 * n + 1
            /\ \A i \in 1..n :
                   /\ calls[3 * i - 2].fn = "library" /\ calls[3 * i - 2].ref = needed_references[i]
                   /\ calls[3 * i - 1].fn = "language" /\ calls[3 * i - 1].ref = needed_references[i]
                   /\ calls[3 * i].fn = "proposal" /\ calls[3 * i].ref = needed_references[i]
            /\ reply = InvokedResults(n) \o Footer
            /\ calls[Len(calls)].out = reply
            /\ Cardinality({k \in 1..Len(reply) : reply[k] = Footer[1]}) = 1
            /\ replyCount[commentId] = 1

\* a reply to two tokens, the first of which resolved to nothing
C6_Witness ==
    /\ ReplyPosted
    /\ Len(needed_references) = 2
    /\ links[1] = <<>>
    /\ calls[4].out # <<>> /\ calls[5].out # <<>> /\ calls[6].out # <<>>

\* C7: DATASTORE is loaded exactly once, before any resolver is invoked and
\* before main() runs; no later step, and no restart of main(), reloads or
\* changes it; if the load fails the process exits before any monitoring.
C7_LoadedOnce ==
    /\ [](loads <= 1)
    /\ []((mainStarts > 0 \/ calls # <<>> \/ pc \in {"loop", "stream", "resolve", "reply"})
              => (loads = 1 /\ DATASTORE \in Datastores))
    /\ [][loads = 1 => (loads' = 1 /\ DATASTORE' = DATASTORE)]_vars
    /\ [](exc.at = "import" =>
              (pc = "exited" /\ loads = 0 /\ mainStarts = 0 /\ commentId = 0))

\* a resolver runs in the second run of main()
C7_Witness == mainStarts = 2 /\ calls # <<>> /\ loads = 1

\* C9: the four credentials come from the config file when it yields all
\* four, else all four from the environment; the process exits exactly when
\* neither yields all four; the values handed to the client are never a mix,
\* and monitoring never starts with fewer than four.
C9_Credentials ==
    /\ creds.called =>
           /\ creds.fileAll =>
                  /\ ~creds.exit
                  /\ \A i \in CredIndex : creds.values[i] = <<"credentials.ini", CredKeys[i]>>
           /\ (~creds.fileAll /\ creds.envAll) =>
                  /\ ~creds.exit
                  /\ \A i \in CredIndex : creds.values[i] = <<"environ", EnvNames[i]>>
           /\ creds.exit <=> (~creds.fileAll /\ ~creds.envAll)
           /\ creds.exit => (pc \in {"except", "exited"} /\ exc.type = "SystemExit")
    /\ InMain =>
           /\ creds.called /\ ~creds.exit
           /\ \A i \in CredIndex : creds.values[i] # Unbound
           /\ \A i, j \in CredIndex : creds.values[i][1] = creds.values[j][1]

\* monitoring with the environment's credentials
C9_Witness ==
    /\ pc = "stream"
    /\ ~creds.fileAll /\ creds.envAll
    /\ \A i \in CredIndex : creds.values[i] = <<"environ", EnvNames[i]>>

====
